---- MODULE Spec2Model ----
(***************************************************************************)
(* Rep counting and form evaluation of the fitness tracker.                *)
(*                                                                         *)
(*   src/src/squat_counter.py        SquatAnalytics, SquatCounter          *)
(*                                   (count_squats, the main application)  *)
(*   src/exercises/squat_counter.py  SquatAnalytics, SquatCounter          *)
(*                                   (process_frame)                       *)
(*   src/exercises/pushup_counter.py poseDetector and the push-up loop     *)
(*   src/models/pose_estimator.py    PoseEstimator.calculate_angle         *)
(*                                                                         *)
(* Numbers.  Python floats are modelled by exact integers in fixed units:  *)
(*   angles        whole degrees; the average (l + r) / 2 of two angles    *)
(*                 in half degrees, l + r                                  *)
(*   percentages   in 1/PerUnit of a percent                               *)
(*   bar values    in 1/BarUnit of a pixel                                 *)
(*   visibilities  in hundredths                                           *)
(*   time          in ticks, TicksPerSecond ticks to the second            *)
(*   half-rep counts (count += 0.5) in halves                              *)
(* Landmark coordinates are pixels.  The rays between landmarks are drawn  *)
(* from the axis-parallel and diagonal directions, for which arctan2 is a  *)
(* whole number of degrees.                                                *)
(***************************************************************************)
EXTENDS Integers, Sequences, FiniteSets, TLC

(* ------------------------------ bounds --------------------------------- *)

\* frames fed to a counter in one behaviour
MaxFrames == 4

\* ticks of the clock per second
TicksPerSecond == 1

\* operations on a SquatAnalytics object in one behaviour (SpecAnalytics)
MaxCalls == 4

\* process_frame is called on this many frames
MaxExFrames == 3

(* ------------------------------- units --------------------------------- *)

PerUnit == 4 * 9

BarUnit == 2 * PerUnit

Pct(p) == p * PerUnit

Range(s) == {s[i] : i \in 1..Len(s)}

Abs(v) == IF v < 0 THEN -v ELSE v

(* ------------------------------ geometry ------------------------------- *)

\* np.arctan2(dy, dx) / math.atan2(dy, dx), in degrees, on the directions
\* the poses use; arctan2(0, 0) = 0 as in numpy and math
arctan2(dy, dx) ==
    CASE dy = 0 /\ dx >= 0 -> 0
      [] dy = 0 /\ dx < 0 -> 180
      [] dx = 0 /\ dy > 0 -> 90
      [] dx = 0 /\ dy < 0 -> -90
      [] dx = dy /\ dx > 0 -> 45
      [] dx = -dy /\ dy > 0 -> 135
      [] dx = dy /\ dx < 0 -> -135
      [] dx = -dy /\ dy < 0 -> -45

\* PoseEstimator.calculate_angle / BaseExercise.calculate_angle: points are
\* <<x, y>>; the result is in degrees
calculate_angle(a, b, c) ==
    LET degrees == arctan2(c[2] - b[2], c[1] - b[1]) - arctan2(a[2] - b[2], a[1] - b[1])
        angle == Abs(degrees)
    IN  IF angle > 180 THEN 360 - angle ELSE angle

\* np.interp(x, [x0, x1], [y0, y1]) for x0 < x1: linear between the two
\* points, constant outside.  x, x0, x1 are in 1/xu, the result in 1/yu.
interp(x, x0, x1, y0, y1, yu) ==
    IF x <= x0 THEN y0 * yu
    ELSE IF x >= x1 THEN y1 * yu
    ELSE y0 * yu + ((x - x0) * (y1 - y0) * yu) \div (x1 - x0)

(* ------------------------------ landmarks ------------------------------ *)

\* a landmark of lm_list is [id, cx, cy, visibility]; lm_list[id] in Python
\* is lm[id + 1] here
Lm(lm, id) == lm[id + 1]

\* lm_list[id][1:3]
XY(lm, id) == <<lm[id + 1][2], lm[id + 1][3]>>

Visibility(lm, id) == lm[id + 1][4]

\* MediaPipe pose landmark ids
LEFT_SHOULDER == 11
RIGHT_SHOULDER == 12
LEFT_WRIST == 15
RIGHT_WRIST == 16
LEFT_HIP == 23
RIGHT_HIP == 24
LEFT_KNEE == 25
RIGHT_KNEE == 26
LEFT_ANKLE == 27
RIGHT_ANKLE == 28

\* SquatCounter.required_landmarks, in the order of the list
required_landmarks ==
    <<LEFT_SHOULDER, RIGHT_SHOULDER, LEFT_HIP, RIGHT_HIP, LEFT_KNEE, RIGHT_KNEE,
      LEFT_ANKLE, RIGHT_ANKLE, LEFT_WRIST, RIGHT_WRIST>>

\* SquatCounter._get_landmark_name
_get_landmark_name(landmark_id) ==
    CASE landmark_id = 11 -> "left shoulder"
      [] landmark_id = 12 -> "right shoulder"
      [] landmark_id = 15 -> "left wrist"
      [] landmark_id = 16 -> "right wrist"
      [] landmark_id = 23 -> "left hip"
      [] landmark_id = 24 -> "right hip"
      [] landmark_id = 25 -> "left knee"
      [] landmark_id = 26 -> "right knee"
      [] landmark_id = 27 -> "left ankle"
      [] landmark_id = 28 -> "right ankle"
      [] OTHER -> "body part"

\* ', '.join(parts)
RECURSIVE Join(_)
Join(parts) ==
    IF parts = <<>> THEN ""
    ELSE IF Len(parts) = 1 THEN parts[1]
    ELSE parts[1] \o ", " \o Join(Tail(parts))

(* ----------------------------- the poses ------------------------------- *)
(* What the pose estimator can hand over.  Image coordinates: y grows      *)
(* downwards.  A leg is a thigh vector (hip to knee) and a shin vector     *)
(* (knee to ankle); a torso is the vector from the hip line to the         *)
(* shoulder line.                                                          *)

LimbLen == 100

\* the 20 pixel knee-over-toes margin, as a diagonal shin
MarginLen == 20

LegShapes ==
    { [thigh |-> <<0, LimbLen>>, shin |-> <<0, LimbLen>>],               \* straight, 180
      [thigh |-> <<LimbLen, LimbLen>>, shin |-> <<LimbLen, LimbLen>>],   \* straight, slanted
      [thigh |-> <<0, LimbLen>>, shin |-> <<-MarginLen, MarginLen>>],    \* 135, knee 20 px ahead
      [thigh |-> <<LimbLen, LimbLen>>, shin |-> <<0, LimbLen>>],         \* bent, 135
      [thigh |-> <<LimbLen, 0>>, shin |-> <<0, LimbLen>>],               \* bent, 90
      [thigh |-> <<0, 0>>, shin |-> <<0, 0>>] }                          \* one point

TorsoShapes ==
    { <<0, -2 * LimbLen>>,            \* upright: shoulders above the hips
      <<2 * LimbLen, -2 * LimbLen>>,  \* leaning 45 degrees
      <<0, 2 * LimbLen>> }            \* shoulders below the hips

Poses == [left : LegShapes, right : LegShapes, torso : TorsoShapes]

HipLeft == <<300, 400>>

HipRight == <<400, 400>>

Plus(p, v) == <<p[1] + v[1], p[2] + v[2]>>

\* the pixel position of landmark id in a pose
PosePoint(pose, id) ==
    CASE id = LEFT_HIP -> HipLeft
      [] id = RIGHT_HIP -> HipRight
      [] id = LEFT_KNEE -> Plus(HipLeft, pose.left.thigh)
      [] id = RIGHT_KNEE -> Plus(HipRight, pose.right.thigh)
      [] id = LEFT_ANKLE -> Plus(Plus(HipLeft, pose.left.thigh), pose.left.shin)
      [] id = RIGHT_ANKLE -> Plus(Plus(HipRight, pose.right.thigh), pose.right.shin)
      [] id = LEFT_SHOULDER -> Plus(HipLeft, pose.torso)
      [] id = RIGHT_SHOULDER -> Plus(HipRight, pose.torso)
      [] OTHER -> <<0, 0>>

\* visibilities of a frame: the landmarks in low have visibility lowval,
\* the others base
VisPatterns ==
    { [low |-> {}, lowval |-> 0, base |-> 90],
      [low |-> {}, lowval |-> 0, base |-> 30],
      [low |-> {0}, lowval |-> 0, base |-> 90],
      [low |-> {LEFT_KNEE}, lowval |-> 29, base |-> 90],
      [low |-> {LEFT_KNEE, RIGHT_ANKLE}, lowval |-> 10, base |-> 90] }

\* lengths of lm_list: nothing detected, too short, up to landmark 28, all 33
LmLengths == {0, 25, 29, 33}

\* PoseEstimator.find_position: lm_list of n landmarks [id, cx, cy, visibility]
find_position(n, pose, vis) ==
    [i \in 1..n |->
        <<i - 1, PosePoint(pose, i - 1)[1], PosePoint(pose, i - 1)[2],
          IF (i - 1) \in vis.low THEN vis.lowval ELSE vis.base>>]

DefaultPose == CHOOSE p \in Poses :
    /\ p.left = [thigh |-> <<0, LimbLen>>, shin |-> <<0, LimbLen>>]
    /\ p.right = p.left
    /\ p.torso = <<0, 2 * LimbLen>>

\* the landmark lists fed to the counters: every pose fully visible, and
\* the short and low-visibility lists in the default pose
LmLists ==
    {find_position(33, p, [low |-> {}, lowval |-> 0, base |-> 90]) : p \in Poses}
    \cup {find_position(n, DefaultPose, v) : n \in LmLengths, v \in VisPatterns}

(* --------------------------- SquatAnalytics ---------------------------- *)
(* An analytics object is a record of its fields.  The operations return   *)
(* [an |-> the object afterwards, calls |-> the winsound.Beep calls made], *)
(* a call being [t |-> time, ok |-> whether Beep returned normally].       *)

\* beep_cooldown = 1.0 seconds
beep_cooldown == 1 * TicksPerSecond

\* the clock at construction: time.time() is seconds since 1970, far more
\* than beep_cooldown after last_beep_time = 0
StartTime == beep_cooldown + 1

\* the clock runs this long
MaxElapsed == beep_cooldown + 1

\* SquatAnalytics.__init__ followed by start_session at time t
NewAnalytics(t) ==
    [session_start |-> t, rep_times |-> <<>>, depths |-> <<>>, form_errors |-> <<>>,
     feedback_messages |-> <<>>, last_beep_time |-> 0]

\* mutant: the time of the attempt is remembered even when Beep raises
play_beep_stamps(a, t, ok) ==
    IF t - a.last_beep_time > beep_cooldown
    THEN [an |-> [a EXCEPT !.last_beep_time = t], calls |-> <<[t |-> t, ok |-> ok]>>]
    ELSE [an |-> a, calls |-> <<>>]

\* mutant: the time of the beep is not remembered
play_beep_unstamped(a, t, ok) ==
    IF t - a.last_beep_time > beep_cooldown
    THEN [an |-> a, calls |-> <<[t |-> t, ok |-> ok]>>]
    ELSE [an |-> a, calls |-> <<>>]

\* SquatAnalytics.play_beep at time t; ok: winsound.Beep succeeds
play_beep(a, t, ok) ==
    IF t - a.last_beep_time > beep_cooldown
    THEN [an |-> IF ok THEN [a EXCEPT !.last_beep_time = t] ELSE a,
          calls |-> <<[t |-> t, ok |-> ok]>>]
    ELSE [an |-> a, calls |-> <<>>]

\* SquatAnalytics.add_feedback
add_feedback(a, message, t, ok) ==
    IF message # "" /\ message \notin Range(a.feedback_messages)
    THEN play_beep([a EXCEPT !.feedback_messages = Append(@, message)], t, ok)
    ELSE [an |-> a, calls |-> <<>>]

\* mutant: the messages stay pending
clear_feedback_keeps(a) == a

\* SquatAnalytics.clear_feedback
clear_feedback(a) == [a EXCEPT !.feedback_messages = <<>>]

\* SquatAnalytics.start_session
start_session(a, t) == [a EXCEPT !.session_start = t]

\* SquatAnalytics.add_rep at time t
add_rep(a, depth, ok, t) ==
    [a EXCEPT !.rep_times = Append(@, t),
              !.depths = Append(@, depth),
              !.form_errors = Append(@, ~ok)]

RECURSIVE Sum(_)
Sum(s) == IF s = <<>> THEN 0 ELSE Head(s) + Sum(Tail(s))

\* sum(self.form_errors): True counts 1
RECURSIVE CountTrue(_)
CountTrue(s) == IF s = <<>> THEN 0 ELSE (IF Head(s) THEN 1 ELSE 0) + CountTrue(Tail(s))

\* SquatAnalytics.get_stats at time t.  Quotients are [num, den]; a float
\* division by zero raises ZeroDivisionError.
get_stats(a, t) ==
    IF a.rep_times = <<>> THEN [kind |-> "empty"]
    ELSE LET total_reps == Len(a.rep_times)
             time_elapsed == a.rep_times[total_reps] - a.rep_times[1]
         IN  IF total_reps > 1 /\ time_elapsed = 0
             THEN [kind |-> "ZeroDivisionError"]
             ELSE [kind |-> "stats",
                   total_reps |-> total_reps,
                   avg_depth |-> [num |-> Sum(a.depths), den |-> total_reps * PerUnit],
                   good_form_percentage |->
                       [num |-> (total_reps - CountTrue(a.form_errors)) * 100,
                        den |-> total_reps],
                   reps_per_min |->
                       IF total_reps > 1
                       THEN [num |-> (total_reps - 1) * 60 * TicksPerSecond,
                             den |-> time_elapsed]
                       ELSE [num |-> 0, den |-> 1],
                   session_duration |->
                       [num |-> t - a.session_start, den |-> 60 * TicksPerSecond]]

(* ---------------------- SquatCounter (src/src) ------------------------- *)

RED == <<0, 0, 255>>
GREEN == <<0, 255, 0>>
ORANGE == <<0, 165, 255>>

\* the visibility threshold 0.3, in hundredths
VisibilityThreshold == 30

\* mutant: a visibility of exactly the threshold counts as missing
RECURSIVE MissingParts_inclusive(_, _)
MissingParts_inclusive(lm, ids) ==
    IF ids = <<>> THEN <<>>
    ELSE LET landmark_id == Head(ids)
             rest == MissingParts_inclusive(lm, Tail(ids))
         IN  IF landmark_id >= Len(lm) \/ Visibility(lm, landmark_id) <= VisibilityThreshold
             THEN <<_get_landmark_name(landmark_id)>> \o rest
             ELSE rest

\* the landmarks of ids (a sequence) that check_visibility finds missing
RECURSIVE MissingParts(_, _)
MissingParts(lm, ids) ==
    IF ids = <<>> THEN <<>>
    ELSE LET landmark_id == Head(ids)
             rest == MissingParts(lm, Tail(ids))
         IN  IF landmark_id >= Len(lm) \/ Visibility(lm, landmark_id) < VisibilityThreshold
             THEN <<_get_landmark_name(landmark_id)>> \o rest
             ELSE rest

\* SquatCounter.check_visibility, the test: the feedback it adds for
\* lm_list = lm, "" when every required landmark is visible
VisibilityFeedback(lm) ==
    IF Len(lm) < 29 THEN "Please ensure full body is visible"
    ELSE LET missing_parts == MissingParts(lm, required_landmarks)
         IN  IF missing_parts # <<>>
             THEN "Adjust position to show: " \o Join(missing_parts)
             ELSE ""

\* mutant: the feedback of earlier frames is not cleared
check_visibility_keeps(a, feedback, t, beep_ok) ==
    IF feedback # ""
    THEN [ok |-> FALSE] @@ add_feedback(a, feedback, t, beep_ok)
    ELSE [ok |-> TRUE, an |-> a, calls |-> <<>>]

\* mutant: the frame goes on whatever the test says
check_visibility_passes(a, feedback, t, beep_ok) ==
    IF feedback # ""
    THEN [ok |-> TRUE] @@ add_feedback(a, feedback, t, beep_ok)
    ELSE [ok |-> TRUE, an |-> clear_feedback(a), calls |-> <<>>]

\* SquatCounter.check_visibility, the effect, given the feedback of the
\* test: [ok, an, calls]
check_visibility(a, feedback, t, beep_ok) ==
    IF feedback # ""
    THEN [ok |-> FALSE] @@ add_feedback(a, feedback, t, beep_ok)
    ELSE [ok |-> TRUE, an |-> clear_feedback(a), calls |-> <<>>]

\* mutant: no knee is ever reported as collapsing inward
_check_knee_valgus_never(hip, knee, ankle) == FALSE

\* SquatCounter._check_knee_valgus
_check_knee_valgus(hip, knee, ankle) == calculate_angle(hip, knee, ankle) < 160

\* SquatCounter.check_knee_alignment
check_knee_alignment(lm) ==
    IF Len(lm) < 29 THEN TRUE
    ELSE LET l_knee == XY(lm, LEFT_KNEE)
             r_knee == XY(lm, RIGHT_KNEE)
             l_ankle == XY(lm, LEFT_ANKLE)
             r_ankle == XY(lm, RIGHT_ANKLE)
             l_hip == XY(lm, LEFT_HIP)
             r_hip == XY(lm, RIGHT_HIP)
             l_over_toes == l_knee[1] > l_ankle[1] + 20
             r_over_toes == r_knee[1] < r_ankle[1] - 20
             l_knee_valgus == _check_knee_valgus(l_hip, l_knee, l_ankle)
             r_knee_valgus == _check_knee_valgus(r_hip, r_knee, r_ankle)
         IN  ~(l_over_toes \/ r_over_toes \/ l_knee_valgus \/ r_knee_valgus)

\* SquatCounter.check_back_angle
check_back_angle(lm) ==
    IF Len(lm) < 25 THEN TRUE
    ELSE LET shoulder_l == XY(lm, LEFT_SHOULDER)
             shoulder_r == XY(lm, RIGHT_SHOULDER)
             hip_l == XY(lm, LEFT_HIP)
             hip_r == XY(lm, RIGHT_HIP)
             shoulder_center == <<(shoulder_l[1] + shoulder_r[1]) \div 2,
                                  (shoulder_l[2] + shoulder_r[2]) \div 2>>
             hip_center == <<(hip_l[1] + hip_r[1]) \div 2, (hip_l[2] + hip_r[2]) \div 2>>
             dx == shoulder_center[1] - hip_center[1]
             dy == shoulder_center[2] - hip_center[2]
             angle == Abs(arctan2(dy, dx) - 90)
         IN  angle < 15

\* count_squats, lines 289-302: left_angle + right_angle, twice the average
\* leg angle (the average in half degrees)
LegAngles(lm) ==
    calculate_angle(XY(lm, LEFT_HIP), XY(lm, LEFT_KNEE), XY(lm, LEFT_ANKLE))
    + calculate_angle(XY(lm, RIGHT_HIP), XY(lm, RIGHT_KNEE), XY(lm, RIGHT_ANKLE))

\* count_squats, lines 304-306: the completion percentage of a frame that
\* passed the visibility gate, from the average (left + right) / 2 of the
\* two leg angles, here left + right in half degrees
SquatPercentageOf(angle2) ==
    LET per == interp(angle2, 2 * 90, 2 * 180, 100, 0, PerUnit)
    IN  IF per < 0 THEN 0 ELSE IF per > Pct(100) THEN Pct(100) ELSE per

SquatPercentage(lm) == SquatPercentageOf(LegAngles(lm))

\* count_squats, line 320: bar = np.interp(per, [0, 100], [650, 100])
BarOf(per) == interp(per, 0, Pct(100), 650, 100, BarUnit)

\* mutant: no margin between the two tests, every percentage is a squat
SquatDown_always(per) == per >= 0

\* count_squats, line 323: squat down position
SquatDown(per) == per >= Pct(80)

\* mutant: one cutover point, standing is anything below the squat threshold
Standing_below_80(per) == per < Pct(80)

\* count_squats, line 328: standing position
Standing(per) == per <= Pct(20)

\* mutant: the push-up convention, a count at each of the two transitions
RepStep_both(s, per, frame_form_ok, t) ==
    LET down == SquatDown(per) /\ s.direction = 0
        s1 == IF down
              THEN [s EXCEPT !.direction = 1, !.count = @ + 1,
                             !.color = IF frame_form_ok THEN GREEN ELSE ORANGE]
              ELSE s
        up == Standing(per) /\ s1.direction = 1
        s2 == IF up
              THEN [s1 EXCEPT !.direction = 0,
                              !.count = @ + 1,
                              !.color = RED,
                              !.analytics = add_rep(@, per, frame_form_ok, t)]
              ELSE s1
    IN  [s |-> s2, transitions |-> (IF down THEN 1 ELSE 0) + (IF up THEN 1 ELSE 0)]

\* mutant: the rep is logged in every standing frame, as process_frame of
\* src/exercises logs it in every frame
RepStep_logs(s, per, frame_form_ok, t) ==
    LET down == SquatDown(per) /\ s.direction = 0
        s1 == IF down
              THEN [s EXCEPT !.direction = 1,
                             !.color = IF frame_form_ok THEN GREEN ELSE ORANGE]
              ELSE s
        up == Standing(per) /\ s1.direction = 1
        s2 == IF up
              THEN [s1 EXCEPT !.direction = 0, !.count = @ + 1, !.color = RED]
              ELSE s1
        s3 == IF Standing(per)
              THEN [s2 EXCEPT !.analytics = add_rep(@, per, frame_form_ok, t)]
              ELSE s2
    IN  [s |-> s3, transitions |-> (IF down THEN 1 ELSE 0) + (IF up THEN 1 ELSE 0)]

\* mutant: every standing frame completes a rep, squat or no squat before
RepStep_every_stand(s, per, frame_form_ok, t) ==
    LET down == SquatDown(per) /\ s.direction = 0
        s1 == IF down
              THEN [s EXCEPT !.direction = 1,
                             !.color = IF frame_form_ok THEN GREEN ELSE ORANGE]
              ELSE s
        up == Standing(per)
        s2 == IF up
              THEN [s1 EXCEPT !.direction = 0,
                              !.count = @ + 1,
                              !.color = RED,
                              !.analytics = add_rep(@, per, frame_form_ok, t)]
              ELSE s1
    IN  [s |-> s2, transitions |-> (IF down THEN 1 ELSE 0) + (IF up THEN 1 ELSE 0)]

\* count_squats, lines 322-334: the two tests in order on the counter s;
\* transitions counts the assignments that changed direction
RepStep(s, per, frame_form_ok, t) ==
    LET down == SquatDown(per) /\ s.direction = 0
        s1 == IF down
              THEN [s EXCEPT !.direction = 1,
                             !.color = IF frame_form_ok THEN GREEN ELSE ORANGE]
              ELSE s
        up == Standing(per) /\ s1.direction = 1
        s2 == IF up
              THEN [s1 EXCEPT !.direction = 0,
                              !.count = @ + 1,
                              !.color = RED,
                              !.analytics = add_rep(@, per, frame_form_ok, t)]
              ELSE s1
    IN  [s |-> s2, transitions |-> (IF down THEN 1 ELSE 0) + (IF up THEN 1 ELSE 0)]

\* mutant: the knee message first
FormMessages_knees_first(back_ok, knees_ok) ==
    (IF ~knees_ok THEN <<"Align knees with feet">> ELSE <<>>)
    \o (IF ~back_ok THEN <<"Keep back straight">> ELSE <<>>)

\* the form messages of a frame, in check order
FormMessages(back_ok, knees_ok) ==
    (IF ~back_ok THEN <<"Keep back straight">> ELSE <<>>)
    \o (IF ~knees_ok THEN <<"Align knees with feet">> ELSE <<>>)

\* count_squats, lines 340-341: add_feedback for each message; beeps[k] is
\* the outcome of winsound.Beep for the k-th message
RECURSIVE AddAll(_, _, _, _)
AddAll(a, msgs, t, beeps) ==
    IF msgs = <<>> THEN [an |-> a, calls |-> <<>>]
    ELSE LET r == add_feedback(a, Head(msgs), t, Head(beeps))
             rest == AddAll(r.an, Tail(msgs), t, Tail(beeps))
         IN  [an |-> rest.an, calls |-> r.calls \o rest.calls]

\* the visibilities of the required landmarks that lm holds
RequiredVisibilities(lm) ==
    {Visibility(lm, id) : id \in {i \in Range(required_landmarks) : i < Len(lm)}}

\* what count_squats reads off lm_list: the feedback of the visibility
\* test and, for a list that passes it, the percentage and the two form
\* checks (lines 286-310)
Observe(lm) ==
    IF VisibilityFeedback(lm) # ""
    THEN [n |-> Len(lm), req_vis |-> RequiredVisibilities(lm),
          feedback |-> VisibilityFeedback(lm),
          angle |-> 0, per |-> 0, back_ok |-> TRUE, knees_ok |-> TRUE]
    ELSE [n |-> Len(lm), req_vis |-> RequiredVisibilities(lm),
          feedback |-> "",
          angle |-> LegAngles(lm),
          per |-> SquatPercentage(lm),
          back_ok |-> check_back_angle(lm),
          knees_ok |-> check_knee_alignment(lm)]

Observations == {Observe(lm) : lm \in LmLists}

\* the outcomes of the winsound.Beep attempts a frame can make, one for
\* each add_feedback call of the frame (an entry no call reads is TRUE)
BeepOutcomes(obs) ==
    LET k == IF obs.feedback # "" THEN 1
             ELSE Len(FormMessages(obs.back_ok, obs.knees_ok))
    IN  {b \in [1..2 -> BOOLEAN] : \A i \in 1..2 : i > k => b[i]}

\* SquatCounter.count_squats on the counter s = [count, direction, prev_per,
\* form_ok, color, analytics] at time t, obs being what it reads off self.lm_list:
\* [s |-> the counter afterwards, ret |-> the returned tuple (without img),
\*  gate |-> check_visibility passed, calls, transitions]
count_squats(s, obs, t, beeps) ==
    LET vis == check_visibility(s.analytics, obs.feedback, t, Head(beeps))
    IN  IF ~vis.ok
        THEN [s |-> [s EXCEPT !.analytics = vis.an],
              ret |-> [per |-> 0, bar |-> 0, color |-> RED, form_ok |-> FALSE,
                       feedback |-> "Adjust position to show all body parts"],
              gate |-> FALSE, calls |-> vis.calls, transitions |-> 0]
        ELSE LET per == obs.per
                 back_ok == obs.back_ok
                 knees_ok == obs.knees_ok
                 ok == back_ok /\ knees_ok
                 bar == BarOf(per)
                 step == RepStep([s EXCEPT !.analytics = vis.an, !.form_ok = ok], per, ok, t)
                 fb == AddAll(step.s.analytics, FormMessages(back_ok, knees_ok), t, beeps)
                 msgs == fb.an.feedback_messages
                 current_feedback == IF msgs # <<>> THEN msgs[Len(msgs)] ELSE "Good form!"
             IN  [s |-> [step.s EXCEPT !.analytics = fb.an, !.prev_per = per],
                  ret |-> [per |-> per, bar |-> bar, color |-> step.s.color,
                           form_ok |-> ok, feedback |-> current_feedback],
                  gate |-> TRUE, calls |-> fb.calls, transitions |-> step.transitions]

(* -------------------- SquatCounter (src/exercises) --------------------- *)

SQUAT_ANGLE == 140
KNEE_ANGLE_THRESHOLD == 160

\* process_frame, lines 151-155: the completion percentage, from the
\* average of the two leg angles in half degrees
ProcessPercentageOf(angle2) == interp(angle2, 2 * SQUAT_ANGLE, 2 * 180, 100, 0, PerUnit)

\* process_frame, lines 128-175, what it reads off lm_list: feedback is the
\* message of the early return ("" when the frame is processed): an empty
\* list is "No person detected", a list too short for landmark 28 raises
\* IndexError, which the handler of line 201 turns into "Error processing
\* frame"; it reads no visibility
ExObserve(lm) ==
    IF Len(lm) = 0
    THEN [n |-> 0, req_vis |-> {}, feedback |-> "No person detected",
          angle |-> 0, per |-> 0, back_ok |-> TRUE, knees_ok |-> TRUE]
    ELSE IF Len(lm) < 29
    THEN [n |-> Len(lm), req_vis |-> {},
          feedback |-> "Error processing frame",
          angle |-> 0, per |-> 0, back_ok |-> TRUE, knees_ok |-> TRUE]
    ELSE [n |-> Len(lm), req_vis |-> {}, feedback |-> "",
          angle |-> LegAngles(lm),
          per |-> ProcessPercentageOf(LegAngles(lm)),
          back_ok |-> ~(calculate_angle(XY(lm, LEFT_SHOULDER), XY(lm, LEFT_HIP),
                                        XY(lm, LEFT_KNEE)) < 160),
          knees_ok |-> ~(calculate_angle(XY(lm, LEFT_HIP), XY(lm, LEFT_KNEE),
                                         XY(lm, LEFT_ANKLE)) < KNEE_ANGLE_THRESHOLD)]

ExObservations == {ExObserve(lm) : lm \in LmLists}

\* process_frame, lines 177-185; count is in halves (count += 0.5)
ProcessRepStep(s, per) ==
    IF per = Pct(100)
    THEN IF s.direction = 0
         THEN [s |-> [s EXCEPT !.count = @ + 1, !.direction = 1], transitions |-> 1]
         ELSE [s |-> s, transitions |-> 0]
    ELSE IF per = 0
    THEN IF s.direction = 1
         THEN [s |-> [s EXCEPT !.count = @ + 1, !.direction = 0], transitions |-> 1]
         ELSE [s |-> s, transitions |-> 0]
    ELSE [s |-> s, transitions |-> 0]

\* mutant: the rep is logged before the landmarks are read
process_frame_logs(s, obs, t) ==
    IF obs.feedback # ""
    THEN [s |-> [s EXCEPT !.analytics = add_rep(@, 0, FALSE, t)],
          ret |-> [per |-> 0, bar |-> 0, color |-> RED, form_ok |-> FALSE,
                   feedback |-> obs.feedback],
          gate |-> FALSE, calls |-> <<>>, transitions |-> 0]
    ELSE LET ok == obs.back_ok /\ obs.knees_ok
             feedback == IF ~obs.knees_ok THEN "Keep your knees behind your toes"
                         ELSE IF ~obs.back_ok THEN "Keep your back straight"
                         ELSE "Good form!"
             step == ProcessRepStep([s EXCEPT !.form_ok = ok, !.feedback = feedback],
                                    obs.per)
             fb == add_feedback(s.analytics, feedback, t, FALSE)
         IN  [s |-> [step.s EXCEPT !.analytics = add_rep(fb.an, obs.per, ok, t)],
              ret |-> [per |-> obs.per, bar |-> BarOf(obs.per),
                       color |-> IF ok THEN GREEN ELSE RED,
                       form_ok |-> ok, feedback |-> feedback],
              gate |-> TRUE, calls |-> fb.calls, transitions |-> step.transitions]

\* SquatCounter.process_frame on the counter s = [count, direction, form_ok,
\* feedback, analytics] at time t.  The module does not import winsound:
\* play_beep's winsound.Beep raises NameError, which play_beep catches.
process_frame(s, obs, t) ==
    IF obs.feedback # ""
    THEN [s |-> s,
          ret |-> [per |-> 0, bar |-> 0, color |-> RED, form_ok |-> FALSE,
                   feedback |-> obs.feedback],
          gate |-> FALSE, calls |-> <<>>, transitions |-> 0]
    ELSE LET ok == obs.back_ok /\ obs.knees_ok
             feedback == IF ~obs.knees_ok THEN "Keep your knees behind your toes"
                         ELSE IF ~obs.back_ok THEN "Keep your back straight"
                         ELSE "Good form!"
             step == ProcessRepStep([s EXCEPT !.form_ok = ok, !.feedback = feedback],
                                    obs.per)
             fb == add_feedback(s.analytics, feedback, t, FALSE)
         IN  [s |-> [step.s EXCEPT !.analytics = add_rep(fb.an, obs.per, ok, t)],
              ret |-> [per |-> obs.per, bar |-> BarOf(obs.per),
                       color |-> IF ok THEN GREEN ELSE RED,
                       form_ok |-> ok, feedback |-> feedback],
              gate |-> TRUE, calls |-> fb.calls, transitions |-> step.transitions]

(* --------------------------- push-up counter --------------------------- *)

\* MediaPipe pose landmark ids of the push-up loop
LEFT_ELBOW == 13
LEFT_HEEL == 29
RIGHT_HEEL == 30
LEFT_FOOT_INDEX == 31
RIGHT_FOOT_INDEX == 32

\* arms: the upper arm (shoulder to elbow) and the forearm (elbow to wrist)
ArmShapes ==
    { [upper |-> <<LimbLen, 0>>, fore |-> <<LimbLen, 0>>],            \* stretched
      [upper |-> <<LimbLen, LimbLen>>, fore |-> <<LimbLen, 0>>],      \* 135
      [upper |-> <<LimbLen, 0>>, fore |-> <<LimbLen, LimbLen>>],      \* 135, the other way
      [upper |-> <<0, LimbLen>>, fore |-> <<-LimbLen, 0>>],           \* 90
      [upper |-> <<0, LimbLen>>, fore |-> <<LimbLen, 0>>],            \* 90, the other way
      [upper |-> <<LimbLen, LimbLen>>, fore |-> <<LimbLen, -LimbLen>>],  \* 90, diagonal
      [upper |-> <<-LimbLen, -LimbLen>>, fore |-> <<-LimbLen, LimbLen>>],
      [upper |-> <<LimbLen, -LimbLen>>, fore |-> <<-LimbLen, -LimbLen>>] }  \* 90, read as 270

\* how far the toes are above the heels, in pixels
ToeLifts == {0, 50, LimbLen}

PushupPoses == [arm : ArmShapes, lift : ToeLifts]

ShoulderLeft == <<300, 400>>

HeelY == 700

\* poseDetector.findPosition: lmList of n landmarks [id, cx, cy]
findPosition(n, pose) ==
    [i \in 1..n |->
        CASE i - 1 = LEFT_SHOULDER -> <<i - 1, ShoulderLeft[1], ShoulderLeft[2]>>
          [] i - 1 = LEFT_ELBOW ->
               <<i - 1, ShoulderLeft[1] + pose.arm.upper[1], ShoulderLeft[2] + pose.arm.upper[2]>>
          [] i - 1 = LEFT_WRIST ->
               <<i - 1, ShoulderLeft[1] + pose.arm.upper[1] + pose.arm.fore[1],
                 ShoulderLeft[2] + pose.arm.upper[2] + pose.arm.fore[2]>>
          [] i - 1 \in {LEFT_HEEL, RIGHT_HEEL} -> <<i - 1, 0, HeelY>>
          [] i - 1 \in {LEFT_FOOT_INDEX, RIGHT_FOOT_INDEX} -> <<i - 1, 0, HeelY - pose.lift>>
          [] OTHER -> <<i - 1, 0, 0>>]

PushupLists == {findPosition(33, p) : p \in PushupPoses} \cup {findPosition(0, p) : p \in PushupPoses}

\* poseDetector.findAngle, in degrees
findAngle(lmList, p1, p2, p3) ==
    LET x1 == lmList[p1 + 1][2]
        y1 == lmList[p1 + 1][3]
        x2 == lmList[p2 + 1][2]
        y2 == lmList[p2 + 1][3]
        x3 == lmList[p3 + 1][2]
        y3 == lmList[p3 + 1][3]
        angle == arctan2(y3 - y2, x3 - x2) - arctan2(y1 - y2, x1 - x2)
    IN  IF angle > 180 THEN 360 - angle
        ELSE IF angle < 0 THEN -angle
        ELSE angle

\* mutant: the line without the clamp
PushupPercentage_unclamped(angle) == 7650 - 45 * angle

\* the push-up loop, lines 78-79: per = -1.25 * angle + 212.5, clamped
PushupPercentage(angle) ==
    LET per == 7650 - 45 * angle
    IN  IF per < 0 THEN 0 ELSE IF per > Pct(100) THEN Pct(100) ELSE per

\* the push-up loop, lines 71-80, what an iteration reads off lmList
PushupObserve(lmList) ==
    IF Len(lmList) = 0
    THEN [n |-> 0, feet |-> FALSE, angle |-> 0, per |-> 0]
    ELSE IF lmList[LEFT_FOOT_INDEX + 1][3] + 50 > lmList[LEFT_HEEL + 1][3]
            /\ lmList[RIGHT_FOOT_INDEX + 1][3] + 50 > lmList[RIGHT_HEEL + 1][3]
    THEN [n |-> Len(lmList), feet |-> TRUE,
          angle |-> findAngle(lmList, LEFT_SHOULDER, LEFT_ELBOW, LEFT_WRIST),
          per |-> PushupPercentage(findAngle(lmList, LEFT_SHOULDER, LEFT_ELBOW, LEFT_WRIST))]
    ELSE [n |-> Len(lmList), feet |-> FALSE, angle |-> 0, per |-> 0]

PushupObservations == {PushupObserve(l) : l \in PushupLists}

\* mutant: the squat convention, a whole push-up counted on the way back
PushupRepStep_whole(s, per) ==
    IF per >= Pct(95)
    THEN IF s.dir = 0
         THEN [s |-> [s EXCEPT !.dir = 1], transitions |-> 1]
         ELSE [s |-> s, transitions |-> 0]
    ELSE IF per <= Pct(5)
    THEN IF s.dir = 1
         THEN [s |-> [s EXCEPT !.count = @ + 2, !.dir = 0], transitions |-> 1]
         ELSE [s |-> s, transitions |-> 0]
    ELSE [s |-> s, transitions |-> 0]

\* the push-up loop, lines 82-89, on s = [count, dir, bar, per]; count is
\* in halves (count += 0.5)
PushupRepStep(s, per) ==
    IF per >= Pct(95)
    THEN IF s.dir = 0
         THEN [s |-> [s EXCEPT !.count = @ + 1, !.dir = 1], transitions |-> 1]
         ELSE [s |-> s, transitions |-> 0]
    ELSE IF per <= Pct(5)
    THEN IF s.dir = 1
         THEN [s |-> [s EXCEPT !.count = @ + 1, !.dir = 0], transitions |-> 1]
         ELSE [s |-> s, transitions |-> 0]
    ELSE [s |-> s, transitions |-> 0]

\* one iteration of the push-up loop, lines 66-89
pushup_iteration(s, obs) ==
    IF obs.n # 0 /\ obs.feet
    THEN PushupRepStep([s EXCEPT !.per = obs.per, !.bar = BarOf(obs.per)], obs.per)
    ELSE [s |-> s, transitions |-> 0]

(* ------------------------------ the state ------------------------------ *)

VARIABLES
    program,      \* which program this process runs; "none" before its first step
    now,          \* the clock, time.time()
    nframes,      \* frames or calls processed so far
    count,        \* SquatCounter (src/src): self.count
    direction,    \*   self.direction
    prev_per,     \*   self.prev_per
    form_ok,      \*   self.form_ok
    color,        \*   self.color
    analytics,    \*   self.analytics
    ex_count,     \* SquatCounter (src/exercises): self.count, in halves
    ex_direction, \*   self.direction
    ex_form_ok,   \*   self.form_ok
    ex_feedback,  \*   self.feedback
    ex_analytics, \*   self.analytics
    pu_count,     \* push-up loop: count, in halves
    pu_dir,       \*   dir
    pu_per,       \*   per
    pu_bar,       \*   bar
    result,       \* what the last call of count_squats / process_frame returned
    frame,        \* what the last frame showed (an observation)
    gate,         \* whether the last frame went past the early returns
    transitions,  \* direction changes within the last frame
    calls,        \* the winsound.Beep calls of the last operation
    low_seen,     \* a frame past the visibility gate had percentage <= 20
    high_seen,    \* a frame past the visibility gate has had percentage >= 80
                  \* since the last frame that incremented count (or the start)
    crossings,    \* times the percentage of the frames past the gate has
                  \* crossed the 80% line (from below 80 to 80 or more, or back)
    script_stage, \* where the scripted squat of SpecEndToEnd stands
    beep_log,     \* SpecAnalytics: every winsound.Beep call so far
    stats,        \* SpecAnalytics: what get_stats returned, if it was the last call
    fn_input,     \* SpecFunctions: the function last applied and its arguments
    fn_output     \* SpecFunctions: what it returned

squatVars == <<count, direction, prev_per, form_ok, color, analytics>>
exVars == <<ex_count, ex_direction, ex_form_ok, ex_feedback, ex_analytics>>
puVars == <<pu_count, pu_dir, pu_per, pu_bar>>
obsVars == <<result, frame, gate, transitions, calls>>
histVars == <<low_seen, high_seen, crossings>>
harnessVars == <<beep_log, stats>>
fnVars == <<fn_input, fn_output>>

vars == <<program, now, nframes, squatVars, exVars, puVars, obsVars, histVars,
          script_stage, harnessVars, fnVars>>

NoFrame == [n |-> 0, req_vis |-> {}, feedback |-> "-", angle |-> 0, per |-> 0,
            back_ok |-> TRUE, knees_ok |-> TRUE]

NoResult == [per |-> 0, bar |-> 0, color |-> RED, form_ok |-> FALSE, feedback |-> "-"]

NoStats == [kind |-> "none"]

\* the three programs at start: SquatCounter.__init__ of src/src and of
\* src/exercises, and line 63 of the push-up script
Init ==
    /\ program = "none"
    /\ now = StartTime
    /\ nframes = 0
    /\ count = 0
    /\ direction = 0
    /\ prev_per = 0
    /\ form_ok = TRUE
    /\ color = RED
    /\ analytics = NewAnalytics(StartTime)
    /\ ex_count = 0
    /\ ex_direction = 0
    /\ ex_form_ok = TRUE
    /\ ex_feedback = "Start with standing position"
    /\ ex_analytics = NewAnalytics(StartTime)
    /\ pu_count = 0
    /\ pu_dir = 0
    /\ pu_per = 0
    /\ pu_bar = 0
    /\ result = NoResult
    /\ frame = NoFrame
    /\ gate = FALSE
    /\ transitions = 0
    /\ calls = <<>>
    /\ low_seen = FALSE
    /\ high_seen = FALSE
    /\ crossings = 0
    /\ script_stage = "start"
    /\ beep_log = <<>>
    /\ stats = NoStats
    /\ fn_input = [op |-> "none"]
    /\ fn_output = 0

Counter == [count |-> count, direction |-> direction, prev_per |-> prev_per,
            form_ok |-> form_ok, color |-> color, analytics |-> analytics]

\* time passes
Tick ==
    /\ now < StartTime + MaxElapsed
    /\ now' = now + 1
    /\ UNCHANGED <<program, nframes, squatVars, exVars, puVars, obsVars, histVars,
                   script_stage, harnessVars, fnVars>>

\* count_squats on the frame obs
SquatFrame(obs, beeps) ==
    /\ program \in {"none", "count_squats"}
    /\ nframes < MaxFrames
    /\ \E r \in {count_squats(Counter, obs, now, beeps)} :
         /\ count' = r.s.count
         /\ direction' = r.s.direction
         /\ prev_per' = r.s.prev_per
         /\ form_ok' = r.s.form_ok
         /\ color' = r.s.color
         /\ analytics' = r.s.analytics
         /\ result' = r.ret
         /\ frame' = obs
         /\ gate' = r.gate
         /\ transitions' = r.transitions
         /\ calls' = r.calls
         /\ low_seen' = (low_seen \/ (r.gate /\ r.ret.per <= Pct(20)))
         /\ high_seen' = IF r.s.count # count THEN FALSE
                         ELSE high_seen \/ (r.gate /\ r.ret.per >= Pct(80))
         /\ crossings' = IF r.gate /\ (prev_per >= Pct(80)) # (r.ret.per >= Pct(80))
                         THEN crossings + 1 ELSE crossings
    /\ program' = "count_squats"
    /\ nframes' = nframes + 1
    /\ UNCHANGED <<now, exVars, puVars, harnessVars, fnVars>>

\* one iteration of the main loop (src/main.py 156-160): find_position
\* sets lm_list, then count_squats
CountSquats ==
    \E obs \in Observations :
      \E beeps \in BeepOutcomes(obs) :
        SquatFrame(obs, beeps) /\ UNCHANGED script_stage

Next == CountSquats \/ Tick

Spec == Init /\ [][Next]_vars

(* The scripted squat of the end-to-end scenario: frames past the          *)
(* visibility gate whose average leg angle starts at 180 degrees, descends *)
(* to 90 and rises back to 180.                                            *)
ScriptedFrame ==
    \E obs \in Observations :
      \E beeps \in BeepOutcomes(obs) :
        /\ obs.feedback = ""
        /\ obs.angle >= 2 * 90
        /\ \/ /\ script_stage = "start"
              /\ obs.angle = 2 * 180
              /\ script_stage' = "descending"
           \/ /\ script_stage = "descending"
              /\ obs.angle < frame.angle
              /\ script_stage' = IF obs.angle = 2 * 90 THEN "rising" ELSE "descending"
           \/ /\ script_stage = "rising"
              /\ obs.angle > frame.angle
              /\ script_stage' = IF obs.angle = 2 * 180 THEN "done" ELSE "rising"
        /\ SquatFrame(obs, beeps)

NextEndToEnd == ScriptedFrame \/ Tick

SpecEndToEnd == Init /\ [][NextEndToEnd]_vars

\* one call of SquatCounter.process_frame (src/exercises)
ProcessFrame ==
    /\ program \in {"none", "process_frame"}
    /\ nframes < MaxExFrames
    /\ \E obs \in ExObservations :
         \E r \in {process_frame([count |-> ex_count, direction |-> ex_direction,
                                  form_ok |-> ex_form_ok, feedback |-> ex_feedback,
                                  analytics |-> ex_analytics], obs, now)} :
             /\ ex_count' = r.s.count
             /\ ex_direction' = r.s.direction
             /\ ex_form_ok' = r.s.form_ok
             /\ ex_feedback' = r.s.feedback
             /\ ex_analytics' = r.s.analytics
             /\ result' = r.ret
             /\ frame' = obs
             /\ gate' = r.gate
             /\ transitions' = r.transitions
             /\ calls' = r.calls
    /\ program' = "process_frame"
    /\ nframes' = nframes + 1
    /\ UNCHANGED <<now, squatVars, puVars, histVars, script_stage, harnessVars, fnVars>>

NextExercises == ProcessFrame \/ Tick

SpecExercises == Init /\ [][NextExercises]_vars

\* one iteration of the push-up loop
PushupFrame ==
    /\ program \in {"none", "pushup"}
    /\ nframes < MaxFrames
    /\ \E obs \in PushupObservations :
         \E r \in {pushup_iteration([count |-> pu_count, dir |-> pu_dir,
                                     bar |-> pu_bar, per |-> pu_per], obs)} :
             /\ pu_count' = r.s.count
             /\ pu_dir' = r.s.dir
             /\ pu_per' = r.s.per
             /\ pu_bar' = r.s.bar
             /\ frame' = obs
             /\ gate' = (obs.n # 0 /\ obs.feet)
             /\ transitions' = r.transitions
    /\ program' = "pushup"
    /\ nframes' = nframes + 1
    /\ UNCHANGED <<now, squatVars, exVars, result, calls, histVars, script_stage,
                   harnessVars, fnVars>>

NextPushup == PushupFrame \/ Tick

SpecPushup == Init /\ [][NextPushup]_vars

\* a process runs one of the three counters
NextCounters == CountSquats \/ ProcessFrame \/ PushupFrame \/ Tick

SpecCounters == Init /\ [][NextCounters]_vars

(* A SquatAnalytics object (src/src) driven through its methods.           *)

Messages == {"", "Keep back straight", "Align knees with feet",
             "Please ensure full body is visible"}

Depths == {0, Pct(100)}

AnalyticsCall ==
    /\ program \in {"none", "analytics"}
    /\ nframes < MaxCalls
    /\ program' = "analytics"
    /\ nframes' = nframes + 1
    /\ UNCHANGED <<now, count, direction, prev_per, form_ok, color, exVars, puVars,
                   result, frame, gate, transitions, histVars, script_stage, fnVars>>

AddFeedback ==
    /\ AnalyticsCall
    /\ \E message \in Messages, beep_ok \in BOOLEAN :
         \E r \in {add_feedback(analytics, message, now, beep_ok)} :
             /\ analytics' = r.an
             /\ calls' = r.calls
             /\ beep_log' = beep_log \o r.calls
    /\ stats' = NoStats

ClearFeedback ==
    /\ AnalyticsCall
    /\ analytics' = clear_feedback(analytics)
    /\ calls' = <<>>
    /\ stats' = NoStats
    /\ UNCHANGED beep_log

AddRep ==
    /\ AnalyticsCall
    /\ \E depth \in Depths, ok \in BOOLEAN :
         analytics' = add_rep(analytics, depth, ok, now)
    /\ calls' = <<>>
    /\ stats' = NoStats
    /\ UNCHANGED beep_log

StartSession ==
    /\ AnalyticsCall
    /\ analytics' = start_session(analytics, now)
    /\ calls' = <<>>
    /\ stats' = NoStats
    /\ UNCHANGED beep_log

GetStats ==
    /\ AnalyticsCall
    /\ stats' = get_stats(analytics, now)
    /\ calls' = <<>>
    /\ UNCHANGED <<analytics, beep_log>>

NextAnalytics == AddFeedback \/ ClearFeedback \/ AddRep \/ StartSession \/ GetStats \/ Tick

SpecAnalytics == Init /\ [][NextAnalytics]_vars

(* The pure functions of the three programs, each applied to inputs from   *)
(* a bounded set.                                                          *)

\* angles run up to this many degrees (averages of two angles, in half
\* degrees, up to half of it)
MaxDegrees == 360

\* the eight directions of the compass and the zero vector
Directions == {<<dx * LimbLen, dy * LimbLen>> : dx \in {-1, 0, 1}, dy \in {-1, 0, 1}}

\* torsos for check_back_angle: the shoulders in any direction from the hips
BackPoses ==
    [left : {[thigh |-> <<0, LimbLen>>, shin |-> <<0, LimbLen>>]},
     right : {[thigh |-> <<0, LimbLen>>, shin |-> <<0, LimbLen>>]},
     torso : Directions \ {<<0, 0>>}]

FunctionCall ==
    /\ program \in {"none", "functions"}
    /\ program' = "functions"
    /\ UNCHANGED <<now, nframes, squatVars, exVars, puVars, obsVars, histVars,
                   script_stage, harnessVars>>

\* check_back_angle on a fully visible list of 33 landmarks; the argument
\* kept is the vector from the hip midpoint to the shoulder midpoint
CheckBackAngle ==
    /\ FunctionCall
    /\ \E pose \in BackPoses :
         /\ fn_input' = [op |-> "check_back_angle", torso |-> pose.torso]
         /\ fn_output' = check_back_angle(
                             find_position(33, pose, [low |-> {}, lowval |-> 0, base |-> 90]))

\* the percentage of count_squats for an average leg angle of angle2 / 2
SquatPercentageCall ==
    /\ FunctionCall
    /\ \E angle2 \in 0..MaxDegrees :
         /\ fn_input' = [op |-> "count_squats.per", angle2 |-> angle2]
         /\ fn_output' = SquatPercentageOf(angle2)

\* the percentage of process_frame for an average leg angle of angle2 / 2
ProcessPercentageCall ==
    /\ FunctionCall
    /\ \E angle2 \in 0..MaxDegrees :
         /\ fn_input' = [op |-> "process_frame.per", angle2 |-> angle2]
         /\ fn_output' = ProcessPercentageOf(angle2)

\* the percentage of the push-up loop for an elbow angle in degrees
PushupPercentageCall ==
    /\ FunctionCall
    /\ \E angle \in 0..MaxDegrees :
         /\ fn_input' = [op |-> "pushup.per", angle |-> angle]
         /\ fn_output' = PushupPercentage(angle)

\* calculate_angle(a, b, c)
CalculateAngle ==
    /\ FunctionCall
    /\ \E a \in Directions, c \in Directions, b \in {<<0, 0>>, HipLeft} :
         /\ fn_input' = [op |-> "calculate_angle", a |-> Plus(b, a), b |-> b, c |-> Plus(b, c)]
         /\ fn_output' = calculate_angle(Plus(b, a), b, Plus(b, c))

\* findAngle(img, 0, 1, 2) on an lmList whose first three landmarks are a, b, c
FindAngle ==
    /\ FunctionCall
    /\ \E a \in Directions, c \in Directions, b \in {<<0, 0>>, HipLeft} :
         /\ fn_input' = [op |-> "findAngle", a |-> Plus(b, a), b |-> b, c |-> Plus(b, c)]
         /\ fn_output' = findAngle(<< <<0, Plus(b, a)[1], Plus(b, a)[2]>>,
                                      <<1, b[1], b[2]>>,
                                      <<2, Plus(b, c)[1], Plus(b, c)[2]>> >>, 0, 1, 2)

NextFunctions ==
    \/ CheckBackAngle
    \/ SquatPercentageCall
    \/ ProcessPercentageCall
    \/ PushupPercentageCall
    \/ CalculateAngle
    \/ FindAngle

SpecFunctions == Init /\ [][NextFunctions]_vars

(* ------------------------------ the claims ----------------------------- *)

\* a step that is a frame of count_squats
IsFrame == nframes' = nframes + 1

\* the rep history of the analytics object a
RepHistory(a) == <<a.rep_times, a.depths, a.form_errors>>

\* the claims' precondition on a frame: lm_list is empty, shorter than 29,
\* or shows a required landmark with visibility below 0.3
Unusable(f) == f.n < 29 \/ \E v \in f.req_vis : v < 30

\* C1: count never decreases; a frame changes it by 0 or by exactly +1, and
\* the +1 happens only in a frame that passes the visibility gate, has
\* percentage <= 20 and starts with direction = 1, which it sets to 0; the
\* frame that moves direction from 0 to 1 (percentage >= 80) leaves count
\* unchanged.
C1_CountMonotone ==
    [][ /\ count' \in {count, count + 1}
        /\ count' = count + 1 =>
              /\ IsFrame /\ gate' /\ ~Unusable(frame')
              /\ result'.per <= Pct(20)
              /\ direction = 1 /\ direction' = 0
        /\ (direction = 0 /\ direction' = 1) =>
              count' = count /\ result'.per >= Pct(80) ]_vars

\* a rep has just been counted, and a frame has just started a squat
C1_Witness == count = 2 /\ direction = 0 /\ transitions = 1 /\ result.per <= Pct(20)

\* C2: from the initial state, as long as no frame past the gate has had
\* percentage <= 20, count has been incremented at most once, however many
\* times the percentage has crossed the 80% line.
C2_Hysteresis == ~low_seen => count <= 1

\* the percentage has gone 75, 100, 75, 100 (or the like) and nothing is counted
C2_Witness == ~low_seen /\ crossings >= 4 /\ count = 0

\* C3: a frame whose landmark list is empty, shorter than 29 entries or has
\* a required landmark with visibility below 0.3 leaves count, direction
\* and the rep history unchanged and returns percentage 0, form_ok = False
\* and a non-empty feedback; the short and the low-visibility lists get the
\* same tuple.
NeutralResult ==
    [per |-> 0, bar |-> 0, color |-> RED, form_ok |-> FALSE,
     feedback |-> "Adjust position to show all body parts"]

C3_FrameSkip ==
    [][ (IsFrame /\ Unusable(frame')) =>
          /\ count' = count
          /\ direction' = direction
          /\ RepHistory(analytics') = RepHistory(analytics)
          /\ result'.per = 0 /\ ~result'.form_ok /\ result'.feedback # ""
          /\ result' = NeutralResult ]_vars

\* a low-visibility frame in the middle of a rep: the squat stays open
C3_Witness ==
    /\ frame.n >= 29 /\ Unusable(frame) /\ direction = 1 /\ count = 1
    /\ result = NeutralResult

\* a too short list in the middle of a rep
C3_WitnessShort == frame.n = 25 /\ direction = 1 /\ result = NeutralResult

\* C7: the rep history holds exactly one entry per counted rep, entries are
\* only appended, and only in the frame that increments count.
C7_OneEntryPerRep ==
    /\ [](/\ Len(analytics.rep_times) = count
          /\ Len(analytics.depths) = count
          /\ Len(analytics.form_errors) = count)
    /\ [][ /\ count' = count => RepHistory(analytics') = RepHistory(analytics)
           /\ count' # count =>
                 /\ SubSeq(analytics'.rep_times, 1, count) = analytics.rep_times
                 /\ SubSeq(analytics'.depths, 1, count) = analytics.depths
                 /\ SubSeq(analytics'.form_errors, 1, count) = analytics.form_errors
                 /\ Len(analytics'.rep_times) = count + 1 ]_vars

C7_Witness == count = 2 /\ Len(analytics.rep_times) = 2

\* C10: the feedback string returned for a frame is never empty, and it is
\* "Good form!" exactly when the frame passed the visibility gate and the
\* returned form_ok is True (so no message of an earlier frame is returned
\* for a frame whose form is OK).
C10_Feedback ==
    nframes > 0 =>
      /\ result.feedback # ""
      /\ (result.feedback = "Good form!") <=> (gate /\ ~Unusable(frame) /\ result.form_ok)

\* a frame with good form after a frame that added a message (and beeped)
C10_Witness ==
    /\ gate /\ result.form_ok /\ result.feedback = "Good form!"
    /\ analytics.last_beep_time # 0

\* C4: the scripted squat (visible frames, the average leg angle going from
\* 180 down to 90 degrees and back up to 180) produces exactly one count,
\* ends with direction = 0, and leaves exactly one entry in the rep history,
\* whose depth is about 100 and whose form flag is the form verdict of the
\* frame of the transition.
C4_EndToEnd ==
    script_stage = "done" =>
        /\ count = 1
        /\ direction = 0
        /\ Len(analytics.rep_times) = 1
        /\ Len(analytics.depths) = 1
        /\ analytics.depths[1] >= Pct(95)
        /\ analytics.form_errors = <<~result.form_ok>>

\* what the scripted squat does produce: everything the claim says but the
\* depth, which is the percentage of the standing frame
C4_RecordedDepth ==
    script_stage = "done" =>
        /\ count = 1
        /\ direction = 0
        /\ Len(analytics.rep_times) = 1
        /\ analytics.depths = <<result.per>>
        /\ result.per <= Pct(20)
        /\ analytics.form_errors = <<~result.form_ok>>

C4_Witness == script_stage = "done" /\ nframes = MaxFrames /\ count = 1

\* every logged winsound.Beep call succeeded
AllOk(log) == \A i \in 1..Len(log) : log[i].ok

\* a step that records a new feedback message
NewMessage == Len(analytics'.feedback_messages) = Len(analytics.feedback_messages) + 1

\* the last alert is no more than beep_cooldown ago
InCooldown == beep_log # <<>> /\ now - beep_log[Len(beep_log)].t <= beep_cooldown

\* C5: as long as winsound.Beep succeeds, any two alert calls are more than
\* beep_cooldown apart; a new message arriving inside the cooldown is
\* recorded at once and without an alert, and a new message arriving when
\* no alert was made within the cooldown makes exactly one alert call (so
\* two new messages in one window make one call, a third after the window
\* a second).
C5_RateLimit ==
    /\ [](AllOk(beep_log) =>
            \A i, j \in 1..Len(beep_log) :
                i < j => beep_log[j].t - beep_log[i].t > beep_cooldown)
    /\ [][ (AllOk(beep_log) /\ NewMessage) =>
             /\ now' = now
             /\ IF InCooldown THEN calls' = <<>>
                 ELSE Len(calls') = 1 /\ calls'[1].t = now ]_vars

\* three add_feedback calls with three new messages: the first two made one
\* alert between them, the third the second
C5_Witness ==
    /\ nframes = 3 /\ Len(analytics.feedback_messages) = 3
    /\ Len(beep_log) = 2 /\ AllOk(beep_log) /\ Len(calls) = 1

\* C6: in the three counters, direction is 0 or 1 and changes at most once
\* per frame; count changes only in a frame that changes direction, and then
\* by the counter's fixed step (1 in count_squats, 0.5 in process_frame and
\* in the push-up loop).
C6_CountOnTransition ==
    /\ [](/\ direction \in {0, 1} /\ ex_direction \in {0, 1} /\ pu_dir \in {0, 1}
          /\ transitions \in {0, 1})
    /\ [][ /\ count' # count => (direction' # direction /\ count' = count + 1)
           /\ ex_count' # ex_count =>
                 (ex_direction' # ex_direction /\ ex_count' = ex_count + 1)
           /\ pu_count' # pu_count => (pu_dir' # pu_dir /\ pu_count' = pu_count + 1)
           /\ IsFrame =>
                 (transitions' = 1 <=>
                    (direction' # direction \/ ex_direction' # ex_direction
                       \/ pu_dir' # pu_dir)) ]_vars

\* a push-up and a half: three direction changes, three half counts
C6_Witness == pu_count = 3 /\ pu_dir = 1 /\ transitions = 1 /\ nframes = MaxFrames

\* C8: process_frame appends a rep record only in a frame that increments
\* count; a frame with no transition appends nothing, and the number of
\* records (get_stats' total_reps) is the number of completed reps.
C8_RecordOnTransition ==
    /\ [][ ex_count' = ex_count =>
             RepHistory(ex_analytics') = RepHistory(ex_analytics) ]_vars
    /\ [](2 * Len(ex_analytics.rep_times) \in {ex_count, ex_count - 1})

\* what process_frame does: one record per processed frame
C8_RecordPerFrame ==
    [][ IsFrame => Len(ex_analytics'.rep_times) =
                     Len(ex_analytics.rep_times) + (IF gate' THEN 1 ELSE 0) ]_vars

\* C9: get_stats returns the empty dict exactly when no rep is recorded,
\* and otherwise the stats with total_reps the number of recorded reps.
C9_GetStats ==
    stats # NoStats =>
        IF analytics.rep_times = <<>>
        THEN stats.kind = "empty"
        ELSE stats.kind = "stats" /\ stats.total_reps = Len(analytics.rep_times)

\* the part of C9 that holds: the empty dict exactly when no rep is
\* recorded, and the right total_reps whenever stats are returned
C9_EmptyIffNoReps ==
    stats # NoStats =>
        /\ stats.kind = "empty" <=> analytics.rep_times = <<>>
        /\ stats.kind = "stats" => stats.total_reps = Len(analytics.rep_times)

\* C11: check_visibility returns False exactly when lm_list has fewer than
\* 29 entries or a required landmark has visibility below 0.3; a required
\* landmark of visibility exactly 0.3 passes.
C11_VisibilityGate ==
    nframes > 0 =>
        (~gate <=> (frame.n < 29 \/ \E v \in frame.req_vis : v < 30))

\* a frame whose landmarks all have visibility exactly 0.3 passed
C11_Witness == gate /\ frame.n = 33 /\ frame.req_vis = {30}

\* the angle, in degrees, between the vector v and the upward vertical of
\* the image (y grows downwards)
FromVertical(v) == calculate_angle(v, <<0, 0>>, <<0, -1>>)

\* C12: check_back_angle passes exactly when the segment from the hip
\* midpoint to the shoulder midpoint is within 15 degrees of vertical; an
\* upright torso (shoulder midpoint straight above the hip midpoint) passes.
C12_BackAngle ==
    fn_input.op = "check_back_angle" =>
        (fn_output <=> FromVertical(fn_input.torso) < 15)

\* what check_back_angle does: it passes when the shoulder midpoint is
\* within 15 degrees of straight below the hip midpoint
C12_BackAngleBelow ==
    fn_input.op = "check_back_angle" =>
        (fn_output <=> FromVertical(<<-fn_input.torso[1], -fn_input.torso[2]>>) < 15)

\* the upright torso has been checked
C12_Witness ==
    fn_input.op = "check_back_angle" /\ fn_input.torso = <<0, -LimbLen>> /\ ~fn_output

\* C13: start_session records the session start and clears the rep
\* history: after it rep_times, depths and form_errors are empty, and
\* get_stats returns the empty result.
C13_StartSessionClears ==
    [][ analytics'.session_start # analytics.session_start =>
          /\ analytics'.session_start = now
          /\ RepHistory(analytics') = << <<>>, <<>>, <<>> >>
          /\ get_stats(analytics', now').kind = "empty" ]_vars

\* what start_session does: it sets session_start and nothing else
C13_StartSessionKeeps ==
    [][ analytics'.session_start # analytics.session_start =>
          analytics' = [analytics EXCEPT !.session_start = now] ]_vars

\* a session restarted after a rep was recorded
C13_Witness ==
    /\ analytics.session_start > StartTime /\ analytics.rep_times # <<>>
    /\ analytics.rep_times[1] < analytics.session_start

\* a frame past the visibility gate whose two legs each have hip, knee and
\* ankle at one point (only then are both leg angles 0)
Degenerate(f) == ~Unusable(f) /\ f.angle = 0

\* C14: a frame with degenerate leg geometry (hip, knee and ankle of a leg
\* at the same point, all visible) gets the neutral result (percentage 0,
\* form_ok False) and leaves direction and count unchanged.
C14_DegenerateSkipped ==
    [][ (IsFrame /\ Degenerate(frame')) =>
          /\ result'.per = 0
          /\ ~result'.form_ok
          /\ direction' = direction
          /\ count' = count ]_vars

\* what count_squats does with such a frame: the angle is 0, the
\* percentage 100, and a counter that was standing starts a squat
C14_DegenerateIsDeepSquat ==
    [][ (IsFrame /\ Degenerate(frame')) =>
          /\ result'.per = Pct(100)
          /\ direction' = 1
          /\ count' = count ]_vars

\* a degenerate frame has started a squat
C14_Witness ==
    Degenerate(frame) /\ gate /\ direction = 1 /\ transitions = 1 /\ nframes = 1

\* C15: process_frame on an empty landmark list, or on one too short to
\* hold landmark 28, returns percentage 0, bar 0, form_ok False and the
\* feedback "No person detected" or "Error processing frame", and leaves
\* count, direction and the rep history as they were.
C15_ProcessFrameSkips ==
    [][ (IsFrame /\ frame'.n < 29) =>
          /\ result'.per = 0 /\ result'.bar = 0 /\ ~result'.form_ok
          /\ result'.feedback =
                (IF frame'.n = 0 THEN "No person detected" ELSE "Error processing frame")
          /\ ex_count' = ex_count
          /\ ex_direction' = ex_direction
          /\ RepHistory(ex_analytics') = RepHistory(ex_analytics) ]_vars

\* a list of 25 landmarks in the middle of a squat
C15_Witness ==
    /\ frame.n = 25 /\ result.feedback = "Error processing frame"
    /\ ex_direction = 1 /\ ex_count = 1 /\ Len(ex_analytics.rep_times) = 1

\* out is the percentage that falls linearly from 100 at x = lo to 0 at
\* x = hi, and is 100 below lo and 0 above hi
ClampedLinear(out, x, lo, hi) ==
    /\ out >= 0 /\ out <= Pct(100)
    /\ IF x <= lo THEN out = Pct(100)
       ELSE IF x >= hi THEN out = 0
       ELSE out * (hi - lo) = Pct(100) * (hi - x)

\* C16: the completion percentage lies in [0, 100] and is a clamped,
\* falling linear function of the angle: count_squats goes from 100 at 90
\* degrees to 0 at 180, process_frame from 100 at 140 degrees to 0 at 180,
\* the push-up loop from 100 at 90 degrees to 0 at 170.
C16_Percentage ==
    /\ fn_input.op = "count_squats.per" =>
          ClampedLinear(fn_output, fn_input.angle2, 2 * 90, 2 * 180)
    /\ fn_input.op = "process_frame.per" =>
          ClampedLinear(fn_output, fn_input.angle2, 2 * 140, 2 * 180)
    /\ fn_input.op = "pushup.per" =>
          ClampedLinear(fn_output, fn_input.angle, 90, 170)

\* an elbow angle of 130 degrees is half a push-up
C16_Witness == fn_input = [op |-> "pushup.per", angle |-> 130] /\ fn_output = Pct(50)

\* the difference of the directions of the rays b -> c and b -> a, in
\* degrees, and that difference made unsigned and folded into [0, 180]
RayDifference(a, b, c) == arctan2(c[2] - b[2], c[1] - b[1]) - arctan2(a[2] - b[2], a[1] - b[1])

Folded(d) == IF Abs(d) > 180 THEN 360 - Abs(d) ELSE Abs(d)

\* C17: every joint-angle computation (calculate_angle, findAngle) returns
\* a value in [0, 180] degrees: the absolute difference of the two ray
\* directions, replaced by 360 minus it when it exceeds 180.
C17_AngleRange ==
    fn_input.op \in {"calculate_angle", "findAngle"} =>
        /\ fn_output >= 0 /\ fn_output <= 180
        /\ fn_output = Folded(RayDifference(fn_input.a, fn_input.b, fn_input.c))

\* the part of C17 that holds: calculate_angle
C17_CalculateAngleRange ==
    fn_input.op = "calculate_angle" =>
        /\ fn_output >= 0 /\ fn_output <= 180
        /\ fn_output = Folded(RayDifference(fn_input.a, fn_input.b, fn_input.c))

\* what findAngle does: a raw difference below -180 comes back as its
\* absolute value, above 180
C17_FindAngleUnfolded ==
    fn_input.op = "findAngle" =>
        LET d == RayDifference(fn_input.a, fn_input.b, fn_input.c)
        IN  fn_output = (IF d < -180 THEN -d ELSE Folded(d))

\* findAngle has returned 270 degrees for a right angle
C17_Witness ==
    /\ fn_input.op = "findAngle" /\ fn_output = 270
    /\ Folded(RayDifference(fn_input.a, fn_input.b, fn_input.c)) = 90

\* C18: in the push-up loop count goes up by 0.5 in a processed frame with
\* percentage >= 95 and dir = 0 (dir becomes 1), by 0.5 in a processed
\* frame with percentage <= 5 and dir = 1 (dir becomes 0), and not at all
\* in any other frame; so count goes up with every change of dir and with
\* nothing else, and is a whole number exactly when dir = 0.
C18_PushupHalfReps ==
    /\ [](pu_count % 2 = pu_dir)
    /\ [][ IsFrame =>
             IF gate' /\ frame'.per >= Pct(95) /\ pu_dir = 0
             THEN pu_count' = pu_count + 1 /\ pu_dir' = 1
             ELSE IF gate' /\ frame'.per <= Pct(5) /\ pu_dir = 1
             THEN pu_count' = pu_count + 1 /\ pu_dir' = 0
             ELSE pu_count' = pu_count /\ pu_dir' = pu_dir ]_vars
    /\ [][ (pu_dir' # pu_dir) <=> (pu_count' = pu_count + 1) ]_vars
    /\ [][ pu_count' \in {pu_count, pu_count + 1} ]_vars

\* one whole push-up counted, then a frame with the toes off the ground
\* that changed nothing
C18_Witness ==
    /\ pu_count = 2 /\ pu_dir = 0 /\ nframes = 3
    /\ frame.n = 33 /\ ~frame.feet /\ transitions = 0

\* every winsound.Beep call of the sequence cs raised
AllFailed(cs) == cs # <<>> /\ \A i \in 1..Len(cs) : ~cs[i].ok

\* C19: when winsound.Beep raises, add_feedback still records the message
\* and count_squats returns as usual: the counter (count, direction, rep
\* history), the messages and the returned tuple are those of the same
\* frame with the alert succeeding, and a failed attempt leaves
\* last_beep_time unchanged.
C19_BeepFailure ==
    [][ IsFrame =>
          /\ \A b \in BeepOutcomes(frame') :
                \E r \in {count_squats(Counter, frame', now, b)} :
                    /\ r.s.count = count'
                    /\ r.s.direction = direction'
                    /\ RepHistory(r.s.analytics) = RepHistory(analytics')
                    /\ r.s.analytics.feedback_messages = analytics'.feedback_messages
                    /\ r.ret = result'
          /\ frame'.feedback # "" => frame'.feedback \in Range(analytics'.feedback_messages)
          /\ gate' => \A m \in Range(FormMessages(frame'.back_ok, frame'.knees_ok)) :
                         m \in Range(analytics'.feedback_messages)
          /\ AllFailed(calls') => analytics'.last_beep_time = analytics.last_beep_time ]_vars

\* a rep completed in a frame whose alert failed
C19_Witness ==
    /\ gate /\ AllFailed(calls) /\ transitions = 1 /\ count = 1
    /\ analytics.feedback_messages # <<>> /\ analytics.last_beep_time = 0

\* the quotient q = [num, den] is (n - 1) reps in the time from first to
\* last, per minute
IsRate(q, n, first, last) ==
    q.num * (last - first) = (n - 1) * 60 * TicksPerSecond * q.den

\* C20: get_stats returns stats for every non-empty rep history, with
\* reps_per_min 0 for one rep and (n - 1) / ((t_last - t_first) / 60) for
\* n > 1 reps, also when the first and the last rep have the same
\* timestamp; it never fails with a division by zero.
C20_RepsPerMin ==
    (stats # NoStats /\ analytics.rep_times # <<>>) =>
        /\ stats.kind = "stats"
        /\ IF Len(analytics.rep_times) = 1
           THEN stats.reps_per_min.num = 0
           ELSE IsRate(stats.reps_per_min, Len(analytics.rep_times),
                       analytics.rep_times[1],
                       analytics.rep_times[Len(analytics.rep_times)])

\* what get_stats does: the division by zero exactly when more than one
\* rep is recorded and the first and the last have the same timestamp, and
\* the rate of the claim otherwise
C20_RepsPerMinOrError ==
    (stats # NoStats /\ analytics.rep_times # <<>>) =>
        LET n == Len(analytics.rep_times)
            first == analytics.rep_times[1]
            last == analytics.rep_times[n]
        IN  IF n > 1 /\ first = last
            THEN stats.kind = "ZeroDivisionError"
            ELSE /\ stats.kind = "stats"
                 /\ IF n = 1 THEN stats.reps_per_min.num = 0
                    ELSE IsRate(stats.reps_per_min, n, first, last)

\* get_stats has failed on two reps of the same timestamp
C20_Witness ==
    /\ stats.kind = "ZeroDivisionError" /\ Len(analytics.rep_times) = 2
    /\ analytics.rep_times[1] = analytics.rep_times[2]

\* C21: at the end of a frame that passes the visibility gate,
\* feedback_messages holds exactly the messages of the checks that failed
\* in this frame, once each, "Keep back straight" before "Align knees with
\* feet", and nothing of an earlier frame.
C21_FeedbackOfThisFrame ==
    gate =>
        analytics.feedback_messages =
            CASE ~frame.back_ok /\ ~frame.knees_ok ->
                   <<"Keep back straight", "Align knees with feet">>
              [] ~frame.back_ok /\ frame.knees_ok -> <<"Keep back straight">>
              [] frame.back_ok /\ ~frame.knees_ok -> <<"Align knees with feet">>
              [] frame.back_ok /\ frame.knees_ok -> <<>>

\* a second frame with both checks failing and two alert attempts:
\* whatever the first frame left in the list is gone
C21_Witness ==
    /\ gate /\ Len(analytics.feedback_messages) = 2 /\ nframes = 2
    /\ count = 0 /\ direction = 0 /\ prev_per = 0 /\ Len(calls) = 2

\* a frame of a run: this frame and the one before passed the visibility
\* gate, and the same checks failed in both
RunFrame ==
    /\ IsFrame /\ gate /\ gate'
    /\ frame'.back_ok = frame.back_ok /\ frame'.knees_ok = frame.knees_ok
    /\ ~(frame'.back_ok /\ frame'.knees_ok)

\* a frame that repeats a failure: this frame and the one before passed the
\* visibility gate, and a check that failed in the one before fails again
RepeatFrame ==
    /\ IsFrame /\ gate /\ gate'
    /\ \/ ~frame.back_ok /\ ~frame'.back_ok
       \/ ~frame.knees_ok /\ ~frame'.knees_ok

\* C22, as stated: over a run of consecutive visible frames in which the
\* same check keeps failing, the message is pending after the first frame,
\* is not re-added, and no further alert is attempted.
C22_AlertOncePerRun ==
    [][ RunFrame => calls' = <<>> ]_vars

\* C22, amended: check_visibility clears the list in every frame that
\* passes the gate, so in every frame of the run the message is added anew,
\* and the alert is attempted again in exactly the frames that come more
\* than beep_cooldown after the last alert that succeeded.
C22_AlertPerFrameOfRun ==
    [][ RepeatFrame =>
          /\ RunFrame => analytics'.feedback_messages = analytics.feedback_messages
          /\ analytics'.feedback_messages # <<>>
          /\ (calls' # <<>>) <=> (now - analytics.last_beep_time > beep_cooldown)
          /\ \A i \in 1..Len(calls') : calls'[i].t = now ]_vars

\* the second frame of a squat held down: the knee check failed in the
\* first (it started the squat) and fails again, and the alert is
\* attempted again
C22_Witness ==
    /\ nframes = 2 /\ gate /\ direction = 1 /\ transitions = 0
    /\ ~frame.knees_ok /\ calls # <<>>

\* bar = 650 - 5.5 * per, bar in 1/BarUnit of a pixel and per in 1/PerUnit
\* of a percent
IsBarOf(bar, per) == 2 * PerUnit * bar = 2 * BarUnit * 650 * PerUnit - 11 * BarUnit * per

\* C23: in every tuple count_squats returns, the neutral one of a skipped
\* frame included, bar = 650 - 5.5 * percentage, so bar lies in [100, 650]
\* and percentage 0 gives bar 650.
C23_BarOfPercentage ==
    nframes > 0 =>
        /\ IsBarOf(result.bar, result.per)
        /\ result.bar >= 100 * BarUnit /\ result.bar <= 650 * BarUnit
        /\ result.per = 0 => result.bar = 650 * BarUnit

\* what count_squats does: the mapping in the frames that pass the
\* visibility gate, and bar 0 with percentage 0 in the skipped ones
C23_BarOrZero ==
    nframes > 0 =>
        IF gate
        THEN /\ IsBarOf(result.bar, result.per)
             /\ result.bar >= 100 * BarUnit /\ result.bar <= 650 * BarUnit
        ELSE result.bar = 0 /\ result.per = 0

\* a skipped frame has returned bar 0
C23_Witness == nframes > 0 /\ ~gate /\ result.per = 0 /\ result.bar = 0

\* C24: a frame increments count only if a frame past the visibility gate
\* has had percentage >= 80 since the last increment (or since the start):
\* after a rep, frames that stay below 80%, skipped or standing, count
\* nothing, and a first frame at <= 20% counts nothing.
C24_SquatBeforeEachRep ==
    /\ [][ count' # count => high_seen ]_vars
    /\ [][ (nframes = 0 /\ IsFrame) => count' = 0 ]_vars

\* a rep counted in two frames, then two frames at or below 20% that
\* counted nothing
C24_Witness ==
    /\ count = 1 /\ nframes = 4 /\ ~high_seen /\ gate /\ result.per <= Pct(20)
    /\ prev_per <= Pct(20) /\ transitions = 0

\* C25: every frame past the visibility gate with percentage >= 80 fails the
\* knee check, so it returns form_ok = False with the feedback "Align knees
\* with feet"; the frame that moves direction from 0 to 1 therefore never
\* leaves form_ok = True, and colours the counter orange, whatever the back
\* check says.
C25_DeepFrameFailsKnees ==
    (gate /\ result.per >= Pct(80)) =>
        /\ ~frame.knees_ok
        /\ ~result.form_ok
        /\ ~form_ok
        /\ result.feedback = "Align knees with feet"
        /\ (direction = 1 /\ transitions = 1) => color = ORANGE

\* a frame at 100% with the back check passing that moved direction to 1
C25_Witness ==
    /\ gate /\ result.per = Pct(100) /\ frame.back_ok
    /\ direction = 1 /\ transitions = 1 /\ count = 0
    /\ ~result.form_ok /\ result.feedback = "Align knees with feet"

====
